---- MODULE Spec2Model ----
(***************************************************************************)
(* Model of FwmarkServer (src/server/FwmarkServer.cpp): one request per    *)
(* connection; the request reads the fwmark of the socket it was handed,   *)
(* computes a new fwmark per command and writes it back.                   *)
(***************************************************************************)
EXTENDS Integers, FiniteSets, Sequences, TLC

(* ---------------------------------------------------------------- bounds *)
NumConns == 2
Conns == 1..NumConns

(* ----------------------------------------------------- program constants *)
NETID_UNSET == 0
PERMISSION_NONE == 0
PERMISSION_NETWORK == 1
PERMISSION_SYSTEM == 3

EPERM == 1
EBADF == 9
EACCES == 13
EINVAL == 22
ENONET == 64
EPROTO == 71
EBADMSG == 74
ENOTSOCK == 88
EAFNOSUPPORT == 97
ECONNRESET == 104
ESHUTDOWN == 108

CommandSize == 16
ConnectInfoSize == 36
BufSize == CommandSize + ConnectInfoSize

(* ------------------------------------------------------------ data model *)
CmdIds == {"ON_ACCEPT", "ON_CONNECT", "ON_CONNECT_COMPLETE", "ON_SENDMMSG",
           "ON_SENDMSG", "ON_SENDTO", "SELECT_NETWORK", "PROTECT_FROM_VPN",
           "SELECT_FOR_USER", "TAG_SOCKET", "UNTAG_SOCKET",
           "QUERY_USER_ACCESS", "UNKNOWN"}

Uids == 0..3
NetIds == 0..3
Permissions == {PERMISSION_NONE, PERMISSION_NETWORK, PERMISSION_SYSTEM}

ZeroFwmark == [netId |-> NETID_UNSET, explicitlySelected |-> FALSE,
               protectedFromVpn |-> FALSE, permission |-> PERMISSION_NONE]

NoCommand == [cmdId |-> "NONE", uid |-> 0, netId |-> 0]
NoInfo == [scopeId |-> 0, linkLocal |-> FALSE]

\* Bitwise OR of two 2-bit permission values.
PermOr(a, b) ==
    (IF (a % 2 = 1) \/ (b % 2 = 1) THEN 1 ELSE 0)
  + (IF (a \div 2 = 1) \/ (b \div 2 = 1) THEN 2 ELSE 0)

\* (permission & PERMISSION_SYSTEM) == PERMISSION_SYSTEM
HasSystem(p) == (p % 2 = 1) /\ (p \div 2 = 1)

(* -------------------------------------------------------------- variables *)
VARIABLES
    conn,            \* per connection: position and locals of onDataAvailable
    mark,            \* the fwmark stored in the kernel for the client's socket
    sockType,        \* [family, proto] of the client's socket
    defaultNetwork,  \* NetworkController's current default network
    redirect         \* mRedirectSocketCalls

vars == <<conn, mark, sockType, defaultNetwork, redirect>>

(* ------------------------------------------- NetworkController (fixture) *)
getPermissionForUser(uid) ==
    CASE uid = 0 -> PERMISSION_SYSTEM
      [] uid \in {1, 2} -> PERMISSION_NETWORK
      [] OTHER -> PERMISSION_NONE

canProtect(uid) == uid \in {0, 1}

isVirtualNetwork(netId) == netId = 3

getDefaultNetwork == defaultNetwork

getNetworkForConnect(uid) == IF uid = 2 THEN 3 ELSE defaultNetwork

getNetworkForUser(uid) == IF uid = 2 THEN 3 ELSE defaultNetwork

getNetworkForInterface(scopeId) == IF scopeId = 1 THEN 2 ELSE NETID_UNSET

checkUserNetworkAccess(uid, netId) ==
    CASE netId = NETID_UNSET -> -ENONET
      [] netId = 1 -> 0
      [] netId = 2 -> IF uid = 3 THEN -EACCES ELSE 0
      [] OTHER -> IF uid \in {0, 2} THEN 0 ELSE -EPERM

(* ------------------------------------------------------------- connection *)
IdleConn ==
    [pc |-> "open", uid |-> 0, msgLen |-> 0, cmd |-> NoCommand, info |-> NoInfo,
     nfds |-> 0, fdval |-> -1, held |-> FALSE, socketFd |-> -1, closes |-> 0,
     permission |-> PERMISSION_NONE, family |-> "NONE", fwmark |-> ZeroFwmark,
     before |-> ZeroFwmark, gotMark |-> FALSE,
     ret |-> 0, sent |-> 0, requests |-> 0, permLookups |-> 0,
     getsockopts |-> 0, setsockopts |-> 0, events |-> 0,
     socketProto |-> "UNREAD", listener |-> "UNASKED"]

Init ==
    /\ conn = [c \in Conns |-> IdleConn]
    /\ mark = ZeroFwmark
    /\ sockType \in {[family |-> "AF_INET", proto |-> "UDP"],
                     [family |-> "AF_INET6", proto |-> "TCP"],
                     [family |-> "AF_UNIX", proto |-> "NONE"]}
    /\ defaultNetwork \in {NETID_UNSET, 1}
    /\ redirect \in BOOLEAN

(* ------------------------------------------------------- request inputs *)
Canon(id) == [cmdId |-> id, uid |-> 0, netId |-> NETID_UNSET]

\* The command records a client can send.  Fields a command never reads are
\* fixed to zero.
Commands ==
         [cmdId : {"QUERY_USER_ACCESS"}, uid : Uids, netId : NetIds]
    \cup [cmdId : {"SELECT_NETWORK"}, uid : {0}, netId : NetIds]
    \cup [cmdId : {"SELECT_FOR_USER"}, uid : Uids, netId : {NETID_UNSET}]
    \cup [cmdId : {"TAG_SOCKET"}, uid : {-1, 2}, netId : {NETID_UNSET}]
    \cup {Canon(id) : id \in CmdIds \ {"QUERY_USER_ACCESS", "SELECT_NETWORK",
                                       "SELECT_FOR_USER", "TAG_SOCKET"}}

Infos == [scopeId : {0, 1}, linkLocal : BOOLEAN]

\* What the peer may have sent with the message: no descriptor, a valid
\* descriptor (3) or an invalid descriptor value (-1).
FdChoices == {[nfds |-> 0, fdval |-> -1], [nfds |-> 1, fdval |-> 3],
              [nfds |-> 1, fdval |-> -1]}

hasDestinationAddress_IgnoresMode(cmdId, redirectSocketCalls) ==
    cmdId \in {"ON_CONNECT", "ON_CONNECT_COMPLETE"}

hasDestinationAddress(cmdId, redirectSocketCalls) ==
    IF redirectSocketCalls
    THEN cmdId \in {"ON_SENDTO", "ON_CONNECT", "ON_SENDMSG", "ON_SENDMMSG",
                    "ON_CONNECT_COMPLETE"}
    ELSE cmdId \in {"ON_CONNECT", "ON_CONNECT_COMPLETE"}

expectedLen(cmdId, redirectSocketCalls) ==
    CommandSize + (IF hasDestinationAddress(cmdId, redirectSocketCalls)
                   THEN ConnectInfoSize ELSE 0)

\* Results of ReceiveFileDescriptorVector(sock, buf, sizeof(buf), 1, &fds):
\* an error (-1, no descriptors), end of stream (0), or 1..sizeof(buf) bytes
\* with at most one descriptor.
MsgLens == {CommandSize - 1, CommandSize, BufSize - 1, BufSize}

Messages ==
         [len : {-1, 0}, cmd : {NoCommand}, info : {NoInfo},
          fd : {[nfds |-> 0, fdval |-> -1]}]
    \cup [len : MsgLens, cmd : {Canon(id) : id \in CmdIds}, info : {NoInfo},
          fd : FdChoices]
    \cup [len : {CommandSize}, cmd : Commands, info : {NoInfo}, fd : FdChoices]
    \cup [len : {BufSize}, cmd : {Canon("ON_CONNECT")}, info : Infos,
          fd : FdChoices]

(* ------------------------------------------------------------ unique_fd *)
\* received_fds[0].release(): the raw descriptor, the vector element gives
\* up ownership.
UniqueFdGet(r) == [r EXCEPT !.socketFd = r.fdval]

UniqueFdRelease(r) == [r EXCEPT !.socketFd = r.fdval, !.held = FALSE]

\* return from processClient: received_fds goes out of scope and closes the
\* descriptor it still owns.
Return(r, ret) ==
    [r EXCEPT !.ret = ret, !.pc = "respond",
              !.closes = @ + (IF r.held THEN 1 ELSE 0), !.held = FALSE]

(* ----------------------------------------- processClient, lines 101-144 *)
QueryUserAccess_CallerUid(r) ==
    IF ~HasSystem(r.permission)
    THEN Return(r, -EPERM)
    ELSE Return(r, checkUserNetworkAccess(r.uid, r.cmd.netId))

QueryUserAccess(r) ==
    IF ~HasSystem(r.permission)
    THEN Return(r, -EPERM)
    ELSE Return(r, checkUserNetworkAccess(r.cmd.uid, r.cmd.netId))

CheckDescriptor_Missing(r) == UniqueFdRelease([r EXCEPT !.pc = "sockopt"])

CheckDescriptor(r) ==
    IF r.nfds # 1 THEN Return(r, -EBADF)
    ELSE IF r.fdval < 0 THEN Return(r, -EBADF)
    ELSE UniqueFdRelease([r EXCEPT !.pc = "sockopt"])

CheckLength(r) == r.msgLen = expectedLen(r.cmd.cmdId, redirect)

ProcessClientReceive_DescriptorFirst(r0, m, uid) ==
    LET r == [r0 EXCEPT !.msgLen = m.len, !.cmd = m.cmd,
                        !.info = m.info, !.nfds = m.fd.nfds,
                        !.fdval = m.fd.fdval,
                        !.held = (m.fd.nfds = 1 /\ m.fd.fdval >= 0),
                        !.requests = @ + 1]
    IN  IF m.len < 0 THEN Return(r, -ECONNRESET)
        ELSE IF m.len = 0 THEN Return(r, -ESHUTDOWN)
        ELSE IF m.fd.nfds # 1 /\ m.cmd.cmdId # "QUERY_USER_ACCESS"
        THEN Return(r, -EBADF)
        ELSE IF ~CheckLength(r) THEN Return(r, -EBADMSG)
        ELSE LET p == [r EXCEPT !.uid = uid,
                                !.permission = getPermissionForUser(uid),
                                !.permLookups = @ + 1]
             IN  IF p.cmd.cmdId = "QUERY_USER_ACCESS"
                 THEN QueryUserAccess(p)
                 ELSE CheckDescriptor(p)

ProcessClientReceive(r0, m, uid) ==
    LET r == [r0 EXCEPT !.msgLen = m.len, !.cmd = m.cmd,
                        !.info = m.info, !.nfds = m.fd.nfds,
                        !.fdval = m.fd.fdval,
                        !.held = (m.fd.nfds = 1 /\ m.fd.fdval >= 0),
                        !.requests = @ + 1]
    IN  IF m.len < 0 THEN Return(r, -ECONNRESET)
        ELSE IF m.len = 0 THEN Return(r, -ESHUTDOWN)
        ELSE IF ~CheckLength(r) THEN Return(r, -EBADMSG)
        ELSE LET p == [r EXCEPT !.uid = uid,
                                !.permission = getPermissionForUser(uid),
                                !.permLookups = @ + 1]
             IN  IF p.cmd.cmdId = "QUERY_USER_ACCESS"
                 THEN QueryUserAccess(p)
                 ELSE CheckDescriptor(p)

\* Serial dispatch: the listener calls onDataAvailable for one client at a
\* time, and releases a client whose handler returned false before it
\* serves the next.
OthersQuiet(c) == \A d \in Conns \ {c} : conn[d].pc = "open"

Receive(c) ==
    /\ conn[c].pc = "open"
    /\ OthersQuiet(c)
    /\ \E m \in Messages, uid \in Uids :
          conn' = [conn EXCEPT ![c] = ProcessClientReceive(conn[c], m, uid)]
    /\ UNCHANGED <<mark, sockType, defaultNetwork, redirect>>

(* ----------------------------------------- processClient, lines 146-159 *)
isSupportedFamily(family) == family \in {"AF_INET", "AF_INET6"}

ProcessClientSockopt(r, domainOk, markOk) ==
    IF ~domainOk
    THEN Return([r EXCEPT !.getsockopts = @ + 1], -ENOTSOCK)
    ELSE IF ~isSupportedFamily(sockType.family)
    THEN Return([r EXCEPT !.getsockopts = @ + 1,
                          !.family = sockType.family], -EAFNOSUPPORT)
    ELSE IF ~markOk
    THEN Return([r EXCEPT !.getsockopts = @ + 2,
                          !.family = sockType.family], -EINVAL)
    ELSE [r EXCEPT !.getsockopts = @ + 2, !.family = sockType.family,
                   !.fwmark = mark, !.before = mark, !.gotMark = TRUE,
                   !.pc = "dispatch"]

ReadSockopt(c) ==
    /\ conn[c].pc = "sockopt"
    /\ \E domainOk \in BOOLEAN, markOk \in BOOLEAN :
          conn' = [conn EXCEPT
                     ![c] = ProcessClientSockopt(conn[c], domainOk, markOk)]
    /\ UNCHANGED <<mark, sockType, defaultNetwork, redirect>>

(* ----------------------------------------- processClient, lines 161-320 *)
\* Outcome of the switch: either an early return with a status, or a break
\* that carries the local fwmark and permission to the write-back.
Early(ret) == [early |-> TRUE, ret |-> ret, fwmark |-> ZeroFwmark,
               permission |-> PERMISSION_NONE]
Break(fwmark, permission) == [early |-> FALSE, ret |-> 0, fwmark |-> fwmark,
                              permission |-> permission]

OnAccept_Replaces(fwmark, permission) == Break(fwmark, permission)

OnAccept(fwmark, permission) ==
    Break(fwmark, PermOr(permission, fwmark.permission))

IsScopedLinkLocal(family, info) ==
    family = "AF_INET6" /\ info.scopeId # 0 /\ info.linkLocal

OnConnect_ClearsProtect(fwmark, permission, family, info, uid) ==
    IF ~fwmark.explicitlySelected
    THEN IF IsScopedLinkLocal(family, info)
         THEN Break([fwmark EXCEPT
                        !.netId = getNetworkForInterface(info.scopeId)],
                    permission)
         ELSE IF ~fwmark.protectedFromVpn
         THEN Break([fwmark EXCEPT !.netId = getNetworkForConnect(uid)],
                    permission)
         ELSE IF ~isVirtualNetwork(fwmark.netId)
         THEN Break([fwmark EXCEPT !.netId = getDefaultNetwork,
                                   !.protectedFromVpn = FALSE], permission)
         ELSE Break(fwmark, permission)
    ELSE Break(fwmark, permission)

OnConnect_ProtectFirst(fwmark, permission, family, info, uid) ==
    IF ~fwmark.explicitlySelected
    THEN IF ~fwmark.protectedFromVpn
         THEN IF IsScopedLinkLocal(family, info)
              THEN Break([fwmark EXCEPT
                             !.netId = getNetworkForInterface(info.scopeId)],
                         permission)
              ELSE Break([fwmark EXCEPT !.netId = getNetworkForConnect(uid)],
                         permission)
         ELSE IF ~isVirtualNetwork(fwmark.netId)
         THEN Break([fwmark EXCEPT !.netId = getDefaultNetwork], permission)
         ELSE Break(fwmark, permission)
    ELSE Break(fwmark, permission)

OnConnect_IgnoresExplicit(fwmark, permission, family, info, uid) ==
    IF IsScopedLinkLocal(family, info)
    THEN Break([fwmark EXCEPT !.netId = getNetworkForInterface(info.scopeId)],
               permission)
    ELSE IF ~fwmark.protectedFromVpn
    THEN Break([fwmark EXCEPT !.netId = getNetworkForConnect(uid)],
               permission)
    ELSE IF ~isVirtualNetwork(fwmark.netId)
    THEN Break([fwmark EXCEPT !.netId = getDefaultNetwork], permission)
    ELSE Break(fwmark, permission)

OnConnect(fwmark, permission, family, info, uid) ==
    IF ~fwmark.explicitlySelected
    THEN IF IsScopedLinkLocal(family, info)
         THEN Break([fwmark EXCEPT
                        !.netId = getNetworkForInterface(info.scopeId)],
                    permission)
         ELSE IF ~fwmark.protectedFromVpn
         THEN Break([fwmark EXCEPT !.netId = getNetworkForConnect(uid)],
                    permission)
         ELSE IF ~isVirtualNetwork(fwmark.netId)
         THEN Break([fwmark EXCEPT !.netId = getDefaultNetwork], permission)
         ELSE Break(fwmark, permission)
    ELSE Break(fwmark, permission)

OnConnectCompleteEvents_NoUdpSkip(protoOk, proto, subscribed) ==
    IF ~protoOk THEN 0
    ELSE IF subscribed THEN 1 ELSE 0

\* Number of events delivered by ON_CONNECT_COMPLETE.
OnConnectCompleteEvents(protoOk, proto, subscribed) ==
    IF ~protoOk \/ proto = "UDP" THEN 0
    ELSE IF subscribed THEN 1 ELSE 0

SelectNetwork_KeepsProtect(fwmark, permission, uid, netId) ==
    IF netId = NETID_UNSET
    THEN Break([fwmark EXCEPT !.netId = netId, !.explicitlySelected = FALSE],
               PERMISSION_NONE)
    ELSE IF checkUserNetworkAccess(uid, netId) # 0
    THEN Early(checkUserNetworkAccess(uid, netId))
    ELSE Break([fwmark EXCEPT !.netId = netId, !.explicitlySelected = TRUE,
                              !.protectedFromVpn = canProtect(uid)],
               permission)

SelectNetwork_KeepsPermission(fwmark, permission, uid, netId) ==
    IF netId = NETID_UNSET
    THEN Break([fwmark EXCEPT !.netId = netId, !.explicitlySelected = FALSE,
                              !.protectedFromVpn = FALSE], permission)
    ELSE IF checkUserNetworkAccess(uid, netId) # 0
    THEN Early(checkUserNetworkAccess(uid, netId))
    ELSE Break([fwmark EXCEPT !.netId = netId, !.explicitlySelected = TRUE,
                              !.protectedFromVpn = canProtect(uid)],
               permission)

SelectNetwork_AlwaysProtects(fwmark, permission, uid, netId) ==
    IF netId = NETID_UNSET
    THEN Break([fwmark EXCEPT !.netId = netId, !.explicitlySelected = FALSE,
                              !.protectedFromVpn = FALSE], PERMISSION_NONE)
    ELSE IF checkUserNetworkAccess(uid, netId) # 0
    THEN Early(checkUserNetworkAccess(uid, netId))
    ELSE Break([fwmark EXCEPT !.netId = netId, !.explicitlySelected = TRUE,
                              !.protectedFromVpn = TRUE], permission)

SelectNetwork_NoAccessCheck(fwmark, permission, uid, netId) ==
    IF netId = NETID_UNSET
    THEN Break([fwmark EXCEPT !.netId = netId, !.explicitlySelected = FALSE,
                              !.protectedFromVpn = FALSE], PERMISSION_NONE)
    ELSE Break([fwmark EXCEPT !.netId = netId, !.explicitlySelected = TRUE,
                              !.protectedFromVpn = canProtect(uid)],
               permission)

SelectNetwork(fwmark, permission, uid, netId) ==
    IF netId = NETID_UNSET
    THEN Break([fwmark EXCEPT !.netId = netId, !.explicitlySelected = FALSE,
                              !.protectedFromVpn = FALSE], PERMISSION_NONE)
    ELSE IF checkUserNetworkAccess(uid, netId) # 0
    THEN Early(checkUserNetworkAccess(uid, netId))
    ELSE Break([fwmark EXCEPT !.netId = netId, !.explicitlySelected = TRUE,
                              !.protectedFromVpn = canProtect(uid)],
               permission)

ProtectFromVpn_IgnoresExplicit(fwmark, permission, uid) ==
    IF ~canProtect(uid) THEN Early(-EPERM)
    ELSE Break([fwmark EXCEPT
                  !.netId = IF isVirtualNetwork(fwmark.netId)
                            THEN getDefaultNetwork ELSE @,
                  !.protectedFromVpn = TRUE],
               PermOr(permission, fwmark.permission))

ProtectFromVpn(fwmark, permission, uid) ==
    IF ~canProtect(uid) THEN Early(-EPERM)
    ELSE Break([fwmark EXCEPT
                  !.netId = IF ~fwmark.explicitlySelected
                               /\ isVirtualNetwork(fwmark.netId)
                            THEN getDefaultNetwork ELSE @,
                  !.protectedFromVpn = TRUE],
               PermOr(permission, fwmark.permission))

SelectForUser_AnyPermission(fwmark, permission, cmdUid) ==
    IF permission = PERMISSION_NONE THEN Early(-EPERM)
    ELSE Break([fwmark EXCEPT !.netId = getNetworkForUser(cmdUid),
                              !.protectedFromVpn = TRUE], permission)

SelectForUser_SetsExplicit(fwmark, permission, cmdUid) ==
    IF ~HasSystem(permission) THEN Early(-EPERM)
    ELSE Break([fwmark EXCEPT !.netId = getNetworkForUser(cmdUid),
                              !.explicitlySelected = TRUE,
                              !.protectedFromVpn = TRUE], permission)

SelectForUser(fwmark, permission, cmdUid) ==
    IF ~HasSystem(permission) THEN Early(-EPERM)
    ELSE Break([fwmark EXCEPT !.netId = getNetworkForUser(cmdUid),
                              !.protectedFromVpn = TRUE], permission)

\* TAG_SOCKET: a uid of -1 means the caller's uid.
TagUid(cmdUid, uid) == IF cmdUid = -1 THEN uid ELSE cmdUid

Switch_SendFallsThrough(r, tagRet) ==
    CASE r.cmd.cmdId = "ON_ACCEPT" -> OnAccept(r.fwmark, r.permission)
      [] r.cmd.cmdId = "ON_CONNECT" ->
            OnConnect(r.fwmark, r.permission, r.family, r.info, r.uid)
      [] r.cmd.cmdId = "ON_CONNECT_COMPLETE" -> Break(r.fwmark, r.permission)
      [] r.cmd.cmdId \in {"ON_SENDMMSG", "ON_SENDMSG", "ON_SENDTO"} ->
            Break(r.fwmark, r.permission)
      [] r.cmd.cmdId = "SELECT_NETWORK" ->
            SelectNetwork(r.fwmark, r.permission, r.uid, r.cmd.netId)
      [] r.cmd.cmdId = "PROTECT_FROM_VPN" ->
            ProtectFromVpn(r.fwmark, r.permission, r.uid)
      [] r.cmd.cmdId = "SELECT_FOR_USER" ->
            SelectForUser(r.fwmark, r.permission, r.cmd.uid)
      [] r.cmd.cmdId \in {"TAG_SOCKET", "UNTAG_SOCKET"} -> Early(tagRet)
      [] OTHER -> Early(-EPROTO)

Switch(r, tagRet) ==
    CASE r.cmd.cmdId = "ON_ACCEPT" -> OnAccept(r.fwmark, r.permission)
      [] r.cmd.cmdId = "ON_CONNECT" ->
            OnConnect(r.fwmark, r.permission, r.family, r.info, r.uid)
      [] r.cmd.cmdId = "ON_CONNECT_COMPLETE" -> Break(r.fwmark, r.permission)
      [] r.cmd.cmdId \in {"ON_SENDMMSG", "ON_SENDMSG", "ON_SENDTO"} -> Early(0)
      [] r.cmd.cmdId = "SELECT_NETWORK" ->
            SelectNetwork(r.fwmark, r.permission, r.uid, r.cmd.netId)
      [] r.cmd.cmdId = "PROTECT_FROM_VPN" ->
            ProtectFromVpn(r.fwmark, r.permission, r.uid)
      [] r.cmd.cmdId = "SELECT_FOR_USER" ->
            SelectForUser(r.fwmark, r.permission, r.cmd.uid)
      [] r.cmd.cmdId \in {"TAG_SOCKET", "UNTAG_SOCKET"} -> Early(tagRet)
      [] OTHER -> Early(-EPROTO)

(* ----------------------------------------- processClient, lines 322-329 *)
\* fwmark.permission = permission, then one setsockopt of the whole value.
WriteBack(r, o, setOk) ==
    LET fw == [o.fwmark EXCEPT !.permission = o.permission]
        w == [r EXCEPT !.fwmark = fw, !.permission = o.permission,
                       !.setsockopts = @ + 1]
    IN  IF setOk THEN Return(w, 0) ELSE Return(w, -EINVAL)

ProcessClientDispatch(r0, protoOk, subscribed, tagRet, setOk) ==
    LET isCC == r0.cmd.cmdId = "ON_CONNECT_COMPLETE"
        r == [r0 EXCEPT
                !.getsockopts = @ + (IF isCC THEN 1 ELSE 0),
                !.socketProto = IF isCC
                                THEN (IF protoOk THEN sockType.proto
                                                 ELSE "FAILED")
                                ELSE @,
                !.listener = IF isCC /\ protoOk /\ sockType.proto # "UDP"
                             THEN (IF subscribed THEN "SUBSCRIBED"
                                                 ELSE "NULL")
                             ELSE @,
                !.events = @ + (IF isCC
                                THEN OnConnectCompleteEvents(protoOk,
                                        sockType.proto, subscribed)
                                ELSE 0),
                !.cmd.uid = IF r0.cmd.cmdId = "TAG_SOCKET"
                            THEN TagUid(@, r0.uid) ELSE @]
        o == Switch(r, tagRet)
    IN  IF o.early THEN Return(r, o.ret) ELSE WriteBack(r, o, setOk)

Dispatch(c) ==
    /\ conn[c].pc = "dispatch"
    /\ \E protoOk \in BOOLEAN, subscribed \in BOOLEAN, tagRet \in {0, -EPERM},
          setOk \in BOOLEAN :
          LET n == ProcessClientDispatch(conn[c], protoOk, subscribed, tagRet,
                                         setOk)
          IN  /\ conn' = [conn EXCEPT ![c] = n]
              /\ mark' = IF n.setsockopts = 1 /\ n.ret = 0
                         THEN n.fwmark ELSE mark
    /\ UNCHANGED <<sockType, defaultNetwork, redirect>>

(* ------------------------------------------ onDataAvailable, lines 76-87 *)
KeepOpen_OnSuccess(ret) == ret = 0

\* The value onDataAvailable returns: false closes the connection.
KeepOpen(ret) == FALSE

OnDataAvailableFinish(r) ==
    [r EXCEPT !.closes = @ + (IF r.socketFd >= 0 THEN 1 ELSE 0),
              !.sent = @ + 1,
              !.pc = IF KeepOpen(r.ret) THEN "open" ELSE "closed"]

Finish(c) ==
    /\ conn[c].pc = "respond"
    /\ conn' = [conn EXCEPT ![c] = OnDataAvailableFinish(conn[c])]
    /\ UNCHANGED <<mark, sockType, defaultNetwork, redirect>>

(* ----------------------------------------------------------- environment *)
\* The listener drops the client; the slot serves the next connection.
Release(c) ==
    /\ conn[c].pc = "closed"
    /\ conn' = [conn EXCEPT ![c] = IdleConn]
    /\ UNCHANGED <<mark, sockType, defaultNetwork, redirect>>

\* The default network changes between requests.
SetDefaultNetwork ==
    /\ \A c \in Conns : conn[c].pc = "open"
    /\ defaultNetwork' \in {NETID_UNSET, 1} \ {defaultNetwork}
    /\ UNCHANGED <<conn, mark, sockType, redirect>>

Next ==
    \/ \E c \in Conns : Receive(c)
    \/ \E c \in Conns : ReadSockopt(c)
    \/ \E c \in Conns : Dispatch(c)
    \/ \E c \in Conns : Finish(c)
    \/ \E c \in Conns : Release(c)
    \/ SetDefaultNetwork

Spec == Init /\ [][Next]_vars

(* ------------------------------------------------ concurrent connections *)
\* Two connections served by concurrent tasks, both handed the same socket.
\* The steps of a request are those of the serial specification; a request
\* may start while the other is between its marker read and its write.
ConcConns == {1, 2}

ConcUids == {1, 3}

ConcMessages ==
         [len : {CommandSize}, cmd : {Canon("PROTECT_FROM_VPN"),
                                      Canon("ON_ACCEPT")},
          info : {NoInfo}, fd : {[nfds |-> 1, fdval |-> 3]}]
    \cup [len : {BufSize}, cmd : {Canon("ON_CONNECT")}, info : {NoInfo},
          fd : {[nfds |-> 1, fdval |-> 3]}]

InitConc ==
    /\ conn = [c \in Conns |-> IdleConn]
    /\ mark = ZeroFwmark
    /\ sockType = [family |-> "AF_INET6", proto |-> "TCP"]
    /\ defaultNetwork = 1
    /\ redirect = FALSE

ReceiveConc(c) ==
    /\ conn[c].pc = "open"
    /\ \E m \in ConcMessages, uid \in ConcUids :
          conn' = [conn EXCEPT ![c] = ProcessClientReceive(conn[c], m, uid)]
    /\ UNCHANGED <<mark, sockType, defaultNetwork, redirect>>

NextConc ==
    \/ \E c \in ConcConns : ReceiveConc(c)
    \/ \E c \in ConcConns : ReadSockopt(c)
    \/ \E c \in ConcConns : Dispatch(c)
    \/ \E c \in ConcConns : Finish(c)
    \/ \E c \in ConcConns : Release(c)

SpecConc == InitConc /\ [][NextConc]_vars

TypeOK ==
    /\ \A c \in Conns : conn[c].pc \in {"open", "sockopt", "dispatch",
                                        "respond", "closed"}
    /\ mark \in [netId : NetIds, explicitlySelected : BOOLEAN,
                 protectedFromVpn : BOOLEAN, permission : 0..3]

(* ======================================================== properties *)
\* processClient has returned for the connection's request.
Returned(c) == conn[c].pc \in {"respond", "closed"}

\* The request passed framing and the descriptor checks and read the fwmark.
ReadMark(c) == Returned(c) /\ conn[c].gotMark

\* C1: every connection gets exactly one response, sent when the handler
\* finishes, after which the connection is closed; a connection never has a
\* second request processed.
C1_OneResponseThenClose ==
    \A c \in Conns :
        /\ conn[c].requests <= 1
        /\ conn[c].sent = (IF conn[c].pc = "closed" THEN 1 ELSE 0)
        /\ conn[c].pc = "open" => conn[c].requests = 0

C1_Witness ==
    \E c \in Conns : /\ conn[c].pc = "closed" /\ conn[c].sent = 1
                     /\ conn[c].ret = -EBADMSG

\* C2: a valid descriptor received with a request is closed exactly once by
\* the time the connection is finished, on every exit path, and is never
\* closed twice.
C2_DescriptorClosedOnce ==
    \A c \in Conns :
        /\ conn[c].closes <= 1
        /\ conn[c].pc = "closed" =>
              /\ ~conn[c].held
              /\ conn[c].closes =
                    (IF conn[c].nfds = 1 /\ conn[c].fdval >= 0 THEN 1 ELSE 0)

C2_Witness ==
    \E c \in Conns : /\ conn[c].pc = "closed" /\ conn[c].closes = 1
                     /\ conn[c].setsockopts = 1 /\ conn[c].ret # 0

\* The message length the wire format requires for a command.
C3_Required(cmdId) ==
    IF \/ redirect /\ cmdId \in {"ON_SENDTO", "ON_CONNECT", "ON_SENDMSG",
                                 "ON_SENDMMSG", "ON_CONNECT_COMPLETE"}
       \/ ~redirect /\ cmdId \in {"ON_CONNECT", "ON_CONNECT_COMPLETE"}
    THEN CommandSize + ConnectInfoSize
    ELSE CommandSize

\* C3: a non-empty message whose length differs from the length required
\* for its command under the redirect mode is answered with EBADMSG without
\* a permission lookup or any socket-option call; the request goes on only
\* with exactly the required length.
C3_LengthMustMatch ==
    \A c \in Conns :
        (conn[c].pc # "open" /\ conn[c].msgLen > 0) =>
            IF conn[c].msgLen # C3_Required(conn[c].cmd.cmdId)
            THEN /\ Returned(c) /\ conn[c].ret = -EBADMSG
                 /\ conn[c].permLookups = 0
                 /\ conn[c].getsockopts = 0 /\ conn[c].setsockopts = 0
            ELSE conn[c].permLookups = 1

C3_Witness ==
    \E c \in Conns : /\ conn[c].pc = "closed" /\ redirect
                     /\ conn[c].cmd.cmdId = "ON_SENDTO"
                     /\ conn[c].msgLen = CommandSize
                     /\ conn[c].ret = -EBADMSG

\* The marker invariant of the data model, for one fwmark value.
MarkerInvariant(fw) ==
    fw.netId = NETID_UNSET =>
        /\ ~fw.explicitlySelected /\ ~fw.protectedFromVpn
        /\ fw.permission = PERMISSION_NONE

\* C4 as stated: whenever the socket's netId is unset, both flags are false
\* and the permission is NONE.
C4_MarkerInvariantAlways == MarkerInvariant(mark)

C4_Excepted == {"ON_ACCEPT", "ON_CONNECT", "ON_CONNECT_COMPLETE",
                "PROTECT_FROM_VPN", "SELECT_FOR_USER"}

\* C4 as amended: the marker invariant holds of the kernel's initial marker
\* and is preserved by every request except those of ON_ACCEPT, ON_CONNECT,
\* ON_CONNECT_COMPLETE, PROTECT_FROM_VPN and SELECT_FOR_USER.
C4_MarkerInvariantPreserved ==
    [][\A c \in Conns :
          (/\ conn[c].pc = "dispatch" /\ conn'[c].pc = "respond"
           /\ conn[c].cmd.cmdId \notin C4_Excepted
           /\ MarkerInvariant(mark))
          => MarkerInvariant(mark')]_vars

C4_Witness ==
    \E c \in Conns : /\ conn[c].pc = "closed"
                     /\ conn[c].cmd.cmdId = "SELECT_NETWORK"
                     /\ conn[c].cmd.netId # NETID_UNSET
                     /\ conn[c].ret = 0 /\ conn[c].setsockopts = 1
                     /\ mark.protectedFromVpn /\ mark.netId = conn[c].cmd.netId

\* C5: SELECT_NETWORK with the unset netId makes no access check and writes
\* the all-reset marker whatever the marker and the caller were; the
\* response is 0 (unless the kernel refuses the write).
C5_SelectUnsetResets ==
    \A c \in Conns :
        (/\ ReadMark(c) /\ conn[c].cmd.cmdId = "SELECT_NETWORK"
         /\ conn[c].cmd.netId = NETID_UNSET) =>
            /\ conn[c].setsockopts = 1
            /\ conn[c].fwmark = ZeroFwmark
            /\ conn[c].ret \in {0, -EINVAL}
            /\ conn[c].ret = 0 => mark = ZeroFwmark
            /\ conn[c].ret # 0 => mark = conn[c].before

C5_Witness ==
    \E c \in Conns : /\ conn[c].pc = "closed"
                     /\ conn[c].cmd.cmdId = "SELECT_NETWORK"
                     /\ conn[c].cmd.netId = NETID_UNSET
                     /\ conn[c].before.netId = 2
                     /\ conn[c].before.explicitlySelected
                     /\ conn[c].before.protectedFromVpn
                     /\ conn[c].before.permission = PERMISSION_SYSTEM
                     /\ conn[c].uid = 3
                     /\ conn[c].ret = 0 /\ mark = ZeroFwmark

\* C6: SELECT_NETWORK of a network the caller fails the access check for
\* makes no write, leaves the marker as it was and returns the check's
\* status.
C6_SelectDeniedNoWrite ==
    \A c \in Conns :
        (/\ ReadMark(c) /\ conn[c].cmd.cmdId = "SELECT_NETWORK"
         /\ conn[c].cmd.netId # NETID_UNSET
         /\ checkUserNetworkAccess(conn[c].uid, conn[c].cmd.netId) # 0) =>
            /\ conn[c].setsockopts = 0
            /\ mark = conn[c].before
            /\ conn[c].ret =
                  checkUserNetworkAccess(conn[c].uid, conn[c].cmd.netId)

C6_Witness ==
    \E c \in Conns : /\ conn[c].pc = "closed"
                     /\ conn[c].cmd.cmdId = "SELECT_NETWORK"
                     /\ conn[c].cmd.netId = 3 /\ conn[c].uid = 1
                     /\ conn[c].ret = -EPERM
                     /\ mark # ZeroFwmark /\ mark = conn[c].before

C8_ExplicitConnectChangesNothing ==
    \A c \in Conns :
        (/\ ReadMark(c) /\ conn[c].cmd.cmdId = "ON_CONNECT"
         /\ conn[c].before.explicitlySelected) =>
            mark = conn[c].before

\* C8 as amended: ON_CONNECT on an explicitly selected marker leaves netId,
\* explicitlySelected and protectedFromVpn as they were; the permission
\* field is replaced by the caller's permission.
C8_ExplicitConnectKeepsNetId ==
    \A c \in Conns :
        (/\ ReadMark(c) /\ conn[c].cmd.cmdId = "ON_CONNECT"
         /\ conn[c].before.explicitlySelected) =>
            /\ conn[c].setsockopts = 1
            /\ conn[c].fwmark =
                  [conn[c].before EXCEPT
                      !.permission = getPermissionForUser(conn[c].uid)]
            /\ mark.netId = conn[c].before.netId
            /\ mark.explicitlySelected /\ mark.protectedFromVpn =
                                             conn[c].before.protectedFromVpn
            /\ conn[c].ret = 0 => mark = conn[c].fwmark

C8_Witness ==
    \E c \in Conns : /\ conn[c].pc = "closed"
                     /\ conn[c].cmd.cmdId = "ON_CONNECT"
                     /\ conn[c].before.explicitlySelected
                     /\ conn[c].before.netId = 2
                     /\ conn[c].before.permission = PERMISSION_SYSTEM
                     /\ conn[c].uid = 2
                     /\ conn[c].ret = 0
                     /\ mark.netId = 2
                     /\ mark.permission = PERMISSION_NETWORK

\* C9: QUERY_USER_ACCESS answers EPERM to a caller without SYSTEM and the
\* access check of (command.uid, command.netId) to a caller with SYSTEM,
\* with or without a descriptor, and makes no socket-option call.
C9_QueryUserAccess ==
    \A c \in Conns :
        (/\ Returned(c) /\ conn[c].cmd.cmdId = "QUERY_USER_ACCESS"
         /\ conn[c].msgLen = CommandSize) =>
            /\ conn[c].ret =
                  (IF getPermissionForUser(conn[c].uid) = PERMISSION_SYSTEM
                   THEN checkUserNetworkAccess(conn[c].cmd.uid,
                                               conn[c].cmd.netId)
                   ELSE -EPERM)
            /\ conn[c].getsockopts = 0 /\ conn[c].setsockopts = 0
            /\ conn[c].socketFd = -1

C9_Witness ==
    \E c \in Conns : /\ conn[c].pc = "closed"
                     /\ conn[c].cmd.cmdId = "QUERY_USER_ACCESS"
                     /\ conn[c].nfds = 0
                     /\ conn[c].uid = 0 /\ conn[c].cmd.uid = 3
                     /\ conn[c].cmd.netId = 2
                     /\ conn[c].ret = -EACCES

\* C10: a request of the right length for a command other than
\* QUERY_USER_ACCESS that comes without a descriptor, or with an invalid
\* one, is answered with EBADF and makes no socket-option call.
C10_NoDescriptor ==
    \A c \in Conns :
        (/\ conn[c].pc # "open"
         /\ conn[c].msgLen > 0
         /\ conn[c].msgLen = C3_Required(conn[c].cmd.cmdId)
         /\ conn[c].cmd.cmdId # "QUERY_USER_ACCESS"
         /\ (conn[c].nfds = 0 \/ conn[c].fdval < 0)) =>
            /\ Returned(c)
            /\ conn[c].ret = -EBADF
            /\ conn[c].getsockopts = 0 /\ conn[c].setsockopts = 0

C10_Witness ==
    \E c \in Conns : /\ conn[c].pc = "closed" /\ conn[c].sent = 1
                     /\ conn[c].cmd.cmdId = "ON_CONNECT"
                     /\ conn[c].nfds = 0 /\ conn[c].ret = -EBADF

\* The requests that leave processClient by a return inside the switch, or
\* before it.
C11_ReturnsEarly(c) ==
    \/ conn[c].cmd.cmdId \in {"QUERY_USER_ACCESS", "ON_SENDTO", "ON_SENDMSG",
                              "ON_SENDMMSG", "TAG_SOCKET", "UNTAG_SOCKET",
                              "UNKNOWN"}
    \/ /\ conn[c].cmd.cmdId = "SELECT_NETWORK"
       /\ conn[c].cmd.netId # NETID_UNSET
       /\ checkUserNetworkAccess(conn[c].uid, conn[c].cmd.netId) # 0
    \/ /\ conn[c].cmd.cmdId = "PROTECT_FROM_VPN" /\ ~canProtect(conn[c].uid)
    \/ /\ conn[c].cmd.cmdId = "SELECT_FOR_USER"
       /\ getPermissionForUser(conn[c].uid) # PERMISSION_SYSTEM

\* C11: a request makes at most one marker write; a request that returns
\* early makes none, and the socket's marker is then the one it read.
C11_AtMostOneWrite ==
    \A c \in Conns :
        /\ conn[c].setsockopts <= 1
        /\ (conn[c].pc # "open" /\ C11_ReturnsEarly(c)) =>
              /\ conn[c].setsockopts = 0
              /\ conn[c].gotMark => mark = conn[c].before

C11_Witness ==
    \E c \in Conns : /\ conn[c].pc = "closed" /\ conn[c].gotMark
                     /\ conn[c].cmd.cmdId = "ON_SENDTO"
                     /\ conn[c].ret = 0 /\ conn[c].setsockopts = 0
                     /\ conn[c].before.permission = PERMISSION_SYSTEM
                     /\ conn[c].uid = 3
                     /\ mark = conn[c].before

\* The request wrote the marker and the kernel accepted the write.
Wrote(c) == ReadMark(c) /\ conn[c].setsockopts = 1 /\ conn[c].ret = 0

\* C12 as stated: every request that writes the marker, other than
\* SELECT_NETWORK with the unset netId, keeps every permission bit the marker
\* had.
C12_PermissionBitsKept ==
    \A c \in Conns :
        (/\ Wrote(c)
         /\ ~(conn[c].cmd.cmdId = "SELECT_NETWORK"
              /\ conn[c].cmd.netId = NETID_UNSET)) =>
            PermOr(mark.permission, conn[c].before.permission)
               = mark.permission

\* C12 as amended: ON_ACCEPT and PROTECT_FROM_VPN write the OR of the
\* caller's permission and the marker's; every other writing request writes
\* the caller's permission alone (NONE for SELECT_NETWORK with the unset
\* netId).
C12_PermissionComposition ==
    \A c \in Conns :
        Wrote(c) =>
            mark.permission =
               (IF conn[c].cmd.cmdId \in {"ON_ACCEPT", "PROTECT_FROM_VPN"}
                THEN PermOr(getPermissionForUser(conn[c].uid),
                            conn[c].before.permission)
                ELSE IF conn[c].cmd.cmdId = "SELECT_NETWORK"
                        /\ conn[c].cmd.netId = NETID_UNSET
                THEN PERMISSION_NONE
                ELSE getPermissionForUser(conn[c].uid))

C12_Witness ==
    \E c \in Conns : /\ conn[c].pc = "closed" /\ Wrote(c)
                     /\ conn[c].cmd.cmdId = "ON_ACCEPT"
                     /\ conn[c].before.permission = PERMISSION_SYSTEM
                     /\ conn[c].uid = 3
                     /\ mark.permission = PERMISSION_SYSTEM

\* C13 as stated: ON_CONNECT_COMPLETE leaves all four fields of the marker
\* as they were and returns success.
C13_ConnectCompleteNoEffect ==
    \A c \in Conns :
        (ReadMark(c) /\ conn[c].cmd.cmdId = "ON_CONNECT_COMPLETE") =>
            /\ mark = conn[c].before
            /\ conn[c].ret = 0 \/ conn[c].setsockopts = 1

\* C13 as amended: ON_CONNECT_COMPLETE writes the marker back with netId,
\* explicitlySelected and protectedFromVpn as read and the permission
\* replaced by the caller's; it returns success unless the kernel refuses
\* the write; it delivers one event exactly when the protocol was read, is
\* not UDP and a subscriber is registered, and none otherwise.
C13_ConnectCompleteWritesPermission ==
    \A c \in Conns :
        (ReadMark(c) /\ conn[c].cmd.cmdId = "ON_CONNECT_COMPLETE") =>
            /\ conn[c].setsockopts = 1
            /\ conn[c].fwmark =
                  [conn[c].before EXCEPT
                      !.permission = getPermissionForUser(conn[c].uid)]
            /\ conn[c].ret \in {0, -EINVAL}
            /\ conn[c].ret = 0 => mark = conn[c].fwmark
            /\ conn[c].ret # 0 => mark = conn[c].before
            /\ conn[c].events =
                  (IF /\ conn[c].socketProto \notin {"FAILED", "UDP"}
                      /\ conn[c].listener = "SUBSCRIBED"
                   THEN 1 ELSE 0)
            /\ conn[c].socketProto \in {"FAILED", sockType.proto}
            /\ conn[c].listener # "UNASKED" =>
                  conn[c].socketProto \notin {"FAILED", "UDP"}

C13_Witness ==
    \E c \in Conns : /\ conn[c].pc = "closed" /\ Wrote(c)
                     /\ conn[c].cmd.cmdId = "ON_CONNECT_COMPLETE"
                     /\ conn[c].socketProto = "TCP"
                     /\ conn[c].events = 1
                     /\ conn[c].before.permission = PERMISSION_SYSTEM
                     /\ mark.permission = PERMISSION_NONE

\* The marker a request writes when it runs alone on a socket whose marker
\* is fw (fw itself if the request makes no write).
SerialEffect(r, fw) ==
    LET o == Switch([r EXCEPT !.fwmark = fw,
                              !.permission = getPermissionForUser(r.uid)], 0)
    IN  IF o.early THEN fw ELSE [o.fwmark EXCEPT !.permission = o.permission]

\* C14: under concurrent connections every marker write stores, whole, the
\* value the writing request computed from its own earlier read: the bits
\* ON_ACCEPT, ON_CONNECT and PROTECT_FROM_VPN do not assign are written as
\* the request read them, whatever the marker holds at the time of the
\* write, and a request that does not write leaves the marker alone.
C14_WriteFromOwnRead ==
    [][\A c \in Conns :
          (conn[c].pc = "dispatch" /\ conn'[c].pc = "respond") =>
             IF conn'[c].setsockopts = 1 /\ conn'[c].ret = 0
             THEN /\ mark' = conn'[c].fwmark
                  /\ mark'.explicitlySelected =
                        conn[c].before.explicitlySelected
                  /\ mark'.protectedFromVpn =
                        (conn[c].before.protectedFromVpn
                         \/ conn[c].cmd.cmdId = "PROTECT_FROM_VPN")
                  /\ conn[c].cmd.cmdId = "ON_ACCEPT" =>
                        mark'.netId = conn[c].before.netId
             ELSE mark' = mark]_vars

\* C14 witness, the lost update: a PROTECT_FROM_VPN and an ON_CONNECT that
\* read the same marker have both written with success, and the marker left
\* on the socket is the result of neither serial order of the two.
C14_LostUpdate ==
    /\ conn[1].pc = "closed" /\ conn[2].pc = "closed"
    /\ Wrote(1) /\ Wrote(2)
    /\ conn[1].cmd.cmdId = "PROTECT_FROM_VPN"
    /\ conn[2].cmd.cmdId = "ON_CONNECT"
    /\ conn[1].before = conn[2].before
    /\ ~mark.protectedFromVpn
    /\ mark # SerialEffect(conn[2], SerialEffect(conn[1], conn[1].before))
    /\ mark # SerialEffect(conn[1], SerialEffect(conn[2], conn[1].before))

\* The netId the decision table of ON_CONNECT gives a marker that is not
\* explicitly selected.
C15_Table(c) ==
    IF /\ conn[c].family = "AF_INET6" /\ conn[c].info.scopeId # 0
       /\ conn[c].info.linkLocal
    THEN getNetworkForInterface(conn[c].info.scopeId)
    ELSE IF ~conn[c].before.protectedFromVpn
    THEN getNetworkForConnect(conn[c].uid)
    ELSE IF ~isVirtualNetwork(conn[c].before.netId)
    THEN defaultNetwork
    ELSE conn[c].before.netId

C16_SelectForUser ==
    \A c \in Conns :
        (ReadMark(c) /\ conn[c].cmd.cmdId = "SELECT_FOR_USER") =>
            IF getPermissionForUser(conn[c].uid) = PERMISSION_SYSTEM
            THEN /\ conn[c].setsockopts = 1
                 /\ conn[c].fwmark.netId = getNetworkForUser(conn[c].cmd.uid)
                 /\ conn[c].fwmark.protectedFromVpn
                 /\ conn[c].fwmark.explicitlySelected =
                       conn[c].before.explicitlySelected
                 /\ conn[c].ret \in {0, -EINVAL}
                 /\ conn[c].ret = 0 => mark = conn[c].fwmark
            ELSE /\ conn[c].ret = -EPERM
                 /\ conn[c].setsockopts = 0
                 /\ mark = conn[c].before

C16_Witness ==
    \E c \in Conns : /\ conn[c].pc = "closed" /\ Wrote(c)
                     /\ conn[c].cmd.cmdId = "SELECT_FOR_USER"
                     /\ conn[c].uid = 0 /\ conn[c].cmd.uid = 2
                     /\ conn[c].before.explicitlySelected
                     /\ ~conn[c].before.protectedFromVpn
                     /\ mark.netId = 3 /\ mark.protectedFromVpn
                     /\ mark.explicitlySelected

\* C17: no request whose resulting marker is not explicit and is protected
\* changes the marker's netId to a virtual network.
C17_NoImplicitProtectedVpn ==
    \A c \in Conns :
        (/\ Wrote(c)
         /\ ~mark.explicitlySelected /\ mark.protectedFromVpn
         /\ mark.netId # conn[c].before.netId) =>
            ~isVirtualNetwork(mark.netId)

\* C18: the response is decided by the first failing check, in the order
\* receive error, end of stream, message length, QUERY_USER_ACCESS,
\* descriptor, address family read, address family support, marker read,
\* and only then the command; EPROTO is given only to an unrecognized
\* command that passed all of them.
C18_FirstFailingCheck ==
    \A c \in Conns :
        Returned(c) =>
            /\ CASE conn[c].msgLen < 0 -> conn[c].ret = -ECONNRESET
                 [] conn[c].msgLen = 0 -> conn[c].ret = -ESHUTDOWN
                 [] conn[c].msgLen > 0
                    /\ conn[c].msgLen # C3_Required(conn[c].cmd.cmdId) ->
                       conn[c].ret = -EBADMSG
                 [] OTHER ->
                    IF conn[c].cmd.cmdId = "QUERY_USER_ACCESS"
                    THEN conn[c].ret \in
                            {-EPERM, checkUserNetworkAccess(conn[c].cmd.uid,
                                                           conn[c].cmd.netId)}
                    ELSE IF conn[c].nfds # 1 \/ conn[c].fdval < 0
                    THEN conn[c].ret = -EBADF
                    ELSE IF conn[c].family = "NONE"
                    THEN conn[c].ret = -ENOTSOCK /\ conn[c].getsockopts = 1
                    ELSE IF conn[c].family \notin {"AF_INET", "AF_INET6"}
                    THEN conn[c].ret = -EAFNOSUPPORT
                         /\ conn[c].getsockopts = 1
                    ELSE IF ~conn[c].gotMark
                    THEN conn[c].ret = -EINVAL /\ conn[c].setsockopts = 0
                    ELSE conn[c].cmd.cmdId = "UNKNOWN" =>
                            conn[c].ret = -EPROTO
            /\ conn[c].ret = -EPROTO =>
                  /\ conn[c].cmd.cmdId = "UNKNOWN" /\ conn[c].gotMark
                  /\ conn[c].socketFd >= 0
                  /\ conn[c].family \in {"AF_INET", "AF_INET6"}

C18_Witness ==
    \E c \in Conns : /\ conn[c].pc = "closed"
                     /\ conn[c].cmd.cmdId = "UNKNOWN"
                     /\ conn[c].msgLen = BufSize /\ conn[c].nfds = 0
                     /\ conn[c].ret = -EBADMSG

\* A request's switch and write-back step.
DispatchStep(c) == conn[c].pc = "dispatch" /\ conn'[c].pc = "respond"

\* C19: with requests served one after another, the marker's explicit bit
\* changes only in the step of a SELECT_NETWORK: to true with a netId that
\* is not the unset one and passes the access check, to false with the
\* unset netId.
C19_ExplicitOnlyBySelectNetwork ==
    [][mark'.explicitlySelected # mark.explicitlySelected =>
          \E c \in Conns :
             /\ DispatchStep(c)
             /\ conn[c].cmd.cmdId = "SELECT_NETWORK"
             /\ IF mark'.explicitlySelected
                THEN /\ conn[c].cmd.netId # NETID_UNSET
                     /\ checkUserNetworkAccess(conn[c].uid,
                                               conn[c].cmd.netId) = 0
                ELSE conn[c].cmd.netId = NETID_UNSET]_vars

C19_Witness ==
    \E c \in Conns : /\ conn[c].pc = "closed" /\ Wrote(c)
                     /\ conn[c].cmd.cmdId = "SELECT_NETWORK"
                     /\ conn[c].cmd.netId = 2
                     /\ ~conn[c].before.explicitlySelected
                     /\ conn[c].before.protectedFromVpn
                     /\ mark.explicitlySelected

\* C20: with requests served one after another, the marker's protect bit
\* goes from false to true only in the step of a PROTECT_FROM_VPN or a
\* SELECT_NETWORK of a set netId whose caller satisfies canProtect, or of a
\* SELECT_FOR_USER whose caller holds SYSTEM.
C20_ProtectOnlyByEntitled ==
    [][(~mark.protectedFromVpn /\ mark'.protectedFromVpn) =>
          \E c \in Conns :
             /\ DispatchStep(c)
             /\ \/ /\ conn[c].cmd.cmdId = "PROTECT_FROM_VPN"
                   /\ canProtect(conn[c].uid)
                \/ /\ conn[c].cmd.cmdId = "SELECT_NETWORK"
                   /\ conn[c].cmd.netId # NETID_UNSET
                   /\ canProtect(conn[c].uid)
                \/ /\ conn[c].cmd.cmdId = "SELECT_FOR_USER"
                   /\ getPermissionForUser(conn[c].uid) = PERMISSION_SYSTEM
      ]_vars

C20_Witness ==
    \E c \in Conns : /\ conn[c].pc = "closed" /\ Wrote(c)
                     /\ conn[c].cmd.cmdId = "SELECT_NETWORK"
                     /\ conn[c].cmd.netId = 1 /\ conn[c].uid = 1
                     /\ ~conn[c].before.protectedFromVpn
                     /\ mark.protectedFromVpn

====
